---- MODULE Spec2Model ----
(***************************************************************************)
(* Client-side session lifecycle of the SarvSaathi frontend:               *)
(*   - the Token Store (three localStorage entries),                       *)
(*   - the HTTP client `api` with its request/response interceptors,       *)
(*   - the Session Manager (AuthProvider: checkAuth, login, register,      *)
(*     logout),                                                            *)
(*   - the pages that drive them: the route guards, the SOS button of the  *)
(*     Emergency page, the resend countdown of the VerifyOTP page.         *)
(* JavaScript runs one task at a time: an action below is one task (an     *)
(* event handler, or the delivery of one network response together with    *)
(* every promise continuation that runs before the next task).             *)
(***************************************************************************)
EXTENDS Integers, Sequences, FiniteSets, TLC

(***************************************************************************)
(* Bounds of the model.                                                    *)
(***************************************************************************)
\* number of ordinary API requests (patientAPI, doctorAPI, ...) that may be
\* in flight at the same time
NumReqs == 2
\* the per-request counters of refresh calls and replays saturate here
MaxCount == 2
\* number of SOS presses followed on one mount of the Emergency page
MaxPress == 2

(***************************************************************************)
(* JavaScript values.                                                      *)
(***************************************************************************)
\* a property that is not there (undefined)
Undefined == "undefined"
\* null: what localStorage.getItem returns for a missing key, and the
\* initial value of `user`.  Strings are modelled as non-empty sequences.
Null == <<>>
\* truthiness of a value read from localStorage
Truthy(v) == v # Null
\* a || b for property values
OrElse(a, b) == IF a = Undefined \/ a = "" THEN b ELSE a

(***************************************************************************)
(* Tokens.  A token string is the sequence of its dot-separated segments,  *)
(* so "hdr.p2.sig" is <<"hdr", "p2", "sig">>.                              *)
(***************************************************************************)
TokStored  == <<"hdr", "p1", "sig">>   \* access token of an earlier session
TokNew     == <<"hdr", "p1n", "sig">>  \* access token issued by /token/refresh/
TokDoctor  == <<"hdr", "p2", "sig">>   \* claims: user_id u2, user_type doctor
TokNoRole  == <<"hdr", "p3", "sig">>   \* claims: user_id u3, no user_type
TokBadJson == <<"hdr", "p4", "sig">>   \* base64 of text that is not JSON
RefStored  == <<"r0">>                 \* refresh token of an earlier session
RefLogin   == <<"r1">>                 \* refresh token issued by /token/

\* access.split('.')[1]
SecondSegment(tok) == IF Len(tok) >= 2 THEN tok[2] ELSE Undefined

\* atob(segment): the decoded text, or <<>> when atob throws
Atob(seg) ==
  CASE seg = "p1"  -> <<"j1">>
    [] seg = "p1n" -> <<"j1">>
    [] seg = "p2"  -> <<"j2">>
    [] seg = "p3"  -> <<"j3">>
    [] seg = "p4"  -> <<"not json">>
    [] OTHER       -> <<>>

\* JSON.parse(text) of a claims text: the payload object, or <<>> on a throw
ParseClaims(text) ==
  CASE text = "j1" -> <<[user_id |-> "u1", user_type |-> "patient"]>>
    [] text = "j2" -> <<[user_id |-> "u2", user_type |-> "doctor"]>>
    [] text = "j3" -> <<[user_id |-> "u3", user_type |-> Undefined]>>
    [] OTHER       -> <<>>

\* JSON.parse(atob(access.split('.')[1])): <<payload>>, or <<>> on a throw
DecodePayload(access) ==
  LET bytes == Atob(SecondSegment(access))
  IN  IF bytes = <<>> THEN <<>> ELSE ParseClaims(bytes[1])

\* the userData object login builds from the payload and the email
UserData_roleFromEmail(payload, email) ==
  [id |-> payload.user_id, email |-> email, user_type |-> "patient"]

UserData(payload, email) ==
  [id        |-> payload.user_id,
   email     |-> email,
   user_type |-> OrElse(payload.user_type, "patient")]

(***************************************************************************)
(* JSON text of a user object: the sequence of its <<key, value>> pairs.   *)
(* JSON.stringify leaves out the properties whose value is undefined.      *)
(***************************************************************************)
UserKeys == <<"id", "email", "user_type">>

Prop(u, k) == CASE k = "id" -> u.id [] k = "email" -> u.email [] OTHER -> u.user_type

RECURSIVE StringifyFrom(_, _)
StringifyFrom(u, i) ==
  IF i > Len(UserKeys) THEN <<>>
  ELSE LET k == UserKeys[i]
       IN  IF Prop(u, k) = Undefined THEN StringifyFrom(u, i + 1)
           ELSE <<<<k, Prop(u, k)>>>> \o StringifyFrom(u, i + 1)

Stringify(u) == StringifyFrom(u, 1)

\* a stored `user` entry that JSON.parse rejects
CorruptText == <<<<"{">>>>

WellFormedText(t) == \A i \in 1..Len(t) : Len(t[i]) = 2

Lookup(t, k) ==
  IF \E i \in 1..Len(t) : t[i][1] = k
  THEN t[CHOOSE i \in 1..Len(t) : t[i][1] = k][2]
  ELSE Undefined

\* JSON.parse(savedUser): <<object>>, or <<>> when it throws
ParseUser(t) ==
  IF WellFormedText(t)
  THEN <<[id |-> Lookup(t, "id"), email |-> Lookup(t, "email"),
          user_type |-> Lookup(t, "user_type")]>>
  ELSE <<>>

\* the user entry left by the earlier session that stored TokStored
UserStored == [id |-> "u1", email |-> "e0", user_type |-> "patient"]

(***************************************************************************)
(* Token Store: the three localStorage entries.                            *)
(***************************************************************************)
EmptyStore == [access_token |-> Null, refresh_token |-> Null, user |-> Null]

FullStore == [access_token  |-> TokStored, refresh_token |-> RefStored,
              user          |-> Stringify(UserStored)]

\* the three removeItem calls of logout and of the failed-refresh branch
RemoveAll_keepRefresh(store) == [store EXCEPT !.access_token = Null, !.user = Null]

RemoveAll(store) ==
  [store EXCEPT !.access_token = Null, !.refresh_token = Null, !.user = Null]

(***************************************************************************)
(* Server responses.  status 0 stands for a transport failure: the error   *)
(* has no `response`.  `data` is the JSON body; a key the body does not    *)
(* carry reads as Undefined (Null for the two token fields).               *)
(***************************************************************************)
NoData == [access |-> Null, refresh |-> Null, detail |-> Undefined,
           message |-> Undefined, error |-> Undefined, email |-> Undefined,
           otp_code |-> Undefined, verified |-> Undefined]

Resp(status, data) == [status |-> status, data |-> data]

Unauthorized == Resp(401, [NoData EXCEPT !.detail = "token_not_valid"])
ServerError  == Resp(500, NoData)
NoResponse   == Resp(0, NoData)

LoginAccessTokens == {TokDoctor, TokNoRole, TokBadJson}

\* POST /token/
LoginResponses ==
  {Resp(200, [NoData EXCEPT !.access = t, !.refresh = RefLogin]) :
      t \in LoginAccessTokens}
  \cup {Resp(401, [NoData EXCEPT !.detail = "no active account"]), NoResponse}

\* POST /token/refresh/
RefreshResponses ==
  {Resp(200, [NoData EXCEPT !.access = TokNew]), Unauthorized, NoResponse}

\* GET /accounts/health-check/ and the ordinary API endpoints
PlainResponses == {Resp(200, NoData), Unauthorized, ServerError, NoResponse}

\* POST /accounts/register-with-otp/
RegisterResponses ==
  {Resp(201, NoData),
   Resp(400, [NoData EXCEPT !.otp_code = "invalid or expired otp"]),
   Resp(400, [NoData EXCEPT !.email = "email already registered"]),
   Resp(400, [NoData EXCEPT !.email = "email already registered",
                            !.otp_code = "invalid or expired otp"]),
   Resp(400, [NoData EXCEPT !.detail = "otp verification failed"]),
   Unauthorized,
   NoResponse}

\* POST /accounts/send-otp/
SendOTPResponses ==
  {Resp(200, [NoData EXCEPT !.message = "otp sent", !.otp_code = "123456"]),
   Resp(200, [NoData EXCEPT !.message = "otp sent"]),
   Resp(400, [NoData EXCEPT !.error = "too many requests"]),
   Unauthorized,
   NoResponse}

\* POST /accounts/verify-otp/
VerifyOTPResponses ==
  {Resp(200, [NoData EXCEPT !.verified = TRUE, !.message = "otp verified"]),
   Resp(200, [NoData EXCEPT !.verified = FALSE, !.message = "invalid otp"]),
   Resp(400, [NoData EXCEPT !.message = "otp expired"]),
   Resp(400, [NoData EXCEPT !.detail = "otp_code is required"]),
   Resp(400, [NoData EXCEPT !.otp_code = "this field is required"]),
   Unauthorized,
   NoResponse}

IsSuccess(resp) == resp.status \in {200, 201}

(***************************************************************************)
(* Callers of the HTTP client `api`.                                       *)
(***************************************************************************)
Reqs == {"r" \o ToString(i) : i \in 1..NumReqs}
StartupCallers == {"probe", "ckrefresh"}
LoginCallers == {"login", "reglogin"}
\* emergencyAPI.triggerEmergency of the SOS press p
Presses == 1..MaxPress
SosCall(p) == "sos" \o ToString(p)
SosCallers == {SosCall(p) : p \in Presses}
PressOf(c) == CHOOSE p \in Presses : SosCall(p) = c
Callers ==
  StartupCallers \cup LoginCallers \cup {"register", "sendotp", "verifyotp"}
  \cup Reqs \cup SosCallers

ResponsesFor(c) ==
  CASE c \in LoginCallers -> LoginResponses
    [] c = "ckrefresh"    -> RefreshResponses
    [] c = "register"     -> RegisterResponses
    [] c = "sendotp"      -> SendOTPResponses
    [] c = "verifyotp"    -> VerifyOTPResponses
    [] OTHER              -> PlainResponses

\* the request config object of a call: st is where the call is,
\* retry is config._retry, nref and nrep count the refresh calls and the
\* replays the interceptor made for this request, auth is the token of its
\* Authorization header, err is error.response?.status of the error the
\* response interceptor is handling while its refresh call is in flight
IdleCall == [st |-> "idle", retry |-> FALSE, nref |-> 0, nrep |-> 0,
             auth |-> Null, err |-> 0]
SentCall == [IdleCall EXCEPT !.st = "sent"]

\* the request interceptor: the stored access token, when there is one,
\* becomes the Authorization header (auth; Null is no header)
RequestInterceptor_none(config, token) == config

RequestInterceptor(config, token) ==
  IF Truthy(token) THEN [config EXCEPT !.auth = token] ELSE config

\* a new request as api sends it over the store `store`
Send(store) == RequestInterceptor(SentCall, store.access_token)

Bump(n) == IF n < MaxCount THEN n + 1 ELSE MaxCount

VARIABLES
  ls,               \* localStorage: access_token, refresh_token, user
  user,             \* AuthProvider state: Null or <<userData>>
  isAuthenticated,  \* AuthProvider state
  loading,          \* AuthProvider state
  cfg,              \* per caller: the request config of its call
  redirectPending,  \* window.location.href = '/login' was assigned
  ckpc,             \* checkAuth: "init", "probe", "refresh", "done"
  ckStart,          \* checkAuth: what it read from the store at startup
                    \* (its local savedUser; which tokens were there)
  probeAccepted,    \* history: healthCheck() resolved during this startup
  refreshExchanged, \* history: a refresh succeeded during this startup
  nRefresh,         \* history: the calls to /token/refresh/ that this
                    \* startup validation and the interceptor on its
                    \* behalf have made
  lpc,              \* per login call: "idle", "await", "done"
  lout,             \* per login call: the response handled and the result
  lfresh,           \* history: the login call started after the last logout
  loggedOut,        \* history: logout() ran and no later login succeeded
  rpc,              \* register: "idle", "register", "login", "done"
  rout,             \* register: the response handled and the result
  sres,             \* sendOTP: the result of the last call
  vres,             \* verifyOTP: the response handled and the result
  rgot,             \* what the last ordinary API request to settle handed
                    \* to its caller
  saved,            \* history: the TokenPair and user the last successful
                    \* login persisted, until a logout or a refresh
  sosActive,        \* Emergency page state
  sosCountdown,     \* Emergency page state `countdown`
  sosPress,         \* history: the number of SOS presses since the mount
  presses,          \* history, per SOS press: what became of it
  otpMounted,       \* the VerifyOTP page is mounted
  otpCountdown,     \* VerifyOTP page state `countdown`
  canResend,        \* VerifyOTP page state
  resendLoading,    \* VerifyOTP page state
  elapsed           \* history: the seconds the resend countdown has counted
                    \* since the mount or the last successful resend

vars == <<ls, user, isAuthenticated, loading, cfg, redirectPending, ckpc,
          ckStart, probeAccepted, refreshExchanged, nRefresh, lpc, lout,
          lfresh, loggedOut, rpc, rout, sres, vres, rgot, saved, sosActive,
          sosCountdown, sosPress, presses, otpMounted, otpCountdown,
          canResend, resendLoading, elapsed>>

memVars   == <<user, isAuthenticated, loading>>
ckVars    == <<ckpc, ckStart, probeAccepted>>
loginVars == <<lpc, lout, lfresh>>
regVars   == <<rpc, rout, sres, vres>>
sosVars   == <<sosActive, sosCountdown, sosPress, presses>>
otpVars   == <<otpMounted, otpCountdown, canResend, resendLoading, elapsed>>
pageVars  == <<sosVars, otpVars>>

\* the email typed into the login form, and the one typed into the
\* registration form
EmailOf(i) == IF i = "login" THEN "e1" ELSE "e2"

NotStarted == [hasAccess |-> FALSE, hasRefresh |-> FALSE, user |-> Null]

NoOutcome == [resp |-> NoResponse, success |-> FALSE, error |-> Undefined,
              settled |-> FALSE]
\* what sendOTP returns; pending is true while the call is in flight
NoOTPResult == [success |-> FALSE, message |-> Undefined,
                otp_code |-> Undefined, error |-> Undefined,
                pending |-> FALSE]

\* what verifyOTP returns; pending is true while the call is in flight
NoVerifyResult == [resp |-> NoResponse, success |-> FALSE,
                   message |-> Undefined, error |-> Undefined,
                   settled |-> FALSE, pending |-> FALSE]

\* no login has persisted anything since the last logout or refresh
NoSaved == [access |-> Null, refresh |-> Null, user |-> Null]

\* no ordinary API request has settled yet
NoResult == [caller |-> "none", resp |-> NoResponse, replayed |-> FALSE]

\* useState(5) and setCountdown(5) of the Emergency page
SOSDelay == 5
\* useState(60) and setCountdown(60) of the VerifyOTP page
ResendDelay == 60

\* an SOS press that has not happened yet.  alert is "none", "skipped" (the
\* user was not authenticated), "sent", "succeeded" or "failed"; called says
\* that triggerEmergency assigned tel:102 to window.location.href
NoPress == [alert |-> "none", called |-> FALSE, cancelled |-> FALSE]

Outcome(resp, success, error) ==
  [resp |-> resp, success |-> success, error |-> error, settled |-> TRUE]

(***************************************************************************)
(* Initial states: the page has just loaded.  The Token Store is what an   *)
(* earlier page load left behind.                                          *)
(***************************************************************************)
InitMemory ==
  /\ user = Null
  /\ isAuthenticated = FALSE
  /\ loading = TRUE
  /\ cfg = [c \in Callers |-> IdleCall]
  /\ redirectPending = FALSE
  /\ ckpc = "init"
  /\ ckStart = NotStarted
  /\ probeAccepted = FALSE
  /\ refreshExchanged = FALSE
  /\ nRefresh = 0
  /\ lpc = [i \in LoginCallers |-> "idle"]
  /\ lout = [i \in LoginCallers |-> NoOutcome]
  /\ lfresh = [i \in LoginCallers |-> FALSE]
  /\ loggedOut = FALSE
  /\ rpc = "idle"
  /\ rout = NoOutcome
  /\ sres = NoOTPResult
  /\ vres = NoVerifyResult
  /\ rgot = NoResult
  /\ saved = NoSaved
  /\ sosActive = FALSE
  /\ sosCountdown = SOSDelay
  /\ sosPress = 0
  /\ presses = [p \in Presses |-> NoPress]
  /\ otpMounted = FALSE
  /\ otpCountdown = ResendDelay
  /\ canResend = FALSE
  /\ resendLoading = FALSE
  /\ elapsed = 0

\* the store as the program's own writes leave it as a unit
Init ==
  /\ ls \in {EmptyStore, FullStore}
  /\ InitMemory

\* any content of the three entries, as another script of the origin, a
\* cleared entry or an older build may leave it
AnyStore ==
  [access_token  : {Null, TokStored},
   refresh_token : {Null, RefStored},
   user          : {Null, Stringify(UserStored), CorruptText}]

InitAnyStore ==
  /\ ls \in AnyStore
  /\ InitMemory

\* `saved` after a step that leaves the store as `store`: a step that
\* cleared the store (the interceptor's failed refresh) ends it
SavedAfter(store) == IF store = ls THEN saved ELSE NoSaved

(***************************************************************************)
(* Session Manager: the continuations that run when a call settles.        *)
(* Each takes the response or error `resp` the call settled with, and the  *)
(* store, the request configs and the redirect flag as the response        *)
(* interceptor left them (ls1, cfg1, rp1).                                 *)
(***************************************************************************)

\* error.response?.data?.detail || error.response?.data?.message || '...'
LoginErrorMessage(resp) ==
  OrElse(resp.data.detail,
         OrElse(resp.data.message,
                "Login failed. Please check your credentials."))

\* error.response?.data?.email?.[0] || ...otp_code?.[0] || ...detail || '...'
RegisterErrorMessage_generic(resp) == "Registration failed. Please try again."

RegisterErrorMessage(resp) ==
  OrElse(resp.data.email,
         OrElse(resp.data.otp_code,
                OrElse(resp.data.detail,
                       "Registration failed. Please try again.")))

\* setUser(null); setIsAuthenticated(false) of logout()
ClearSession_keepUser == user' = user /\ isAuthenticated' = FALSE

ClearSession == user' = Null /\ isAuthenticated' = FALSE

\* setLoading(false), the last statement of checkAuth
FinishLoading_never == loading' = loading

FinishLoading == loading' = FALSE

\* checkAuth after `await authAPI.healthCheck()`
AfterProbe(resp, ls1, cfg1, rp1) ==
  /\ redirectPending' = rp1
  /\ probeAccepted' = (probeAccepted \/ IsSuccess(resp))
  /\ IF IsSuccess(resp) /\ ParseUser(ckStart.user) # <<>>
     THEN /\ user' = ParseUser(ckStart.user)
          /\ isAuthenticated' = TRUE
          /\ FinishLoading
          /\ ckpc' = "done"
          /\ ls' = ls1
          /\ cfg' = cfg1
          /\ saved' = SavedAfter(ls1)
          /\ UNCHANGED nRefresh
     ELSE IF Truthy(ls1.refresh_token)
          THEN /\ cfg' = [cfg1 EXCEPT !["ckrefresh"] = Send(ls1)]
               /\ nRefresh' = Bump(nRefresh)
               /\ ckpc' = "refresh"
               /\ ls' = ls1
               /\ saved' = SavedAfter(ls1)
               /\ UNCHANGED memVars
          ELSE /\ ls' = RemoveAll(ls1)
               /\ ClearSession
               /\ FinishLoading
               /\ ckpc' = "done"
               /\ cfg' = cfg1
               /\ saved' = NoSaved
               /\ UNCHANGED nRefresh
  /\ UNCHANGED <<ckStart, refreshExchanged, loginVars, loggedOut, regVars,
                 rgot, pageVars>>

\* checkAuth after `await authAPI.refreshToken(refreshToken)`
AfterCkRefresh(resp, ls1, cfg1, rp1) ==
  /\ redirectPending' = rp1
  /\ cfg' = cfg1
  /\ refreshExchanged' = (refreshExchanged \/ IsSuccess(resp))
  /\ IF IsSuccess(resp) /\ ParseUser(ckStart.user) # <<>>
     THEN /\ ls' = [ls1 EXCEPT !.access_token = resp.data.access]
          /\ user' = ParseUser(ckStart.user)
          /\ isAuthenticated' = TRUE
     ELSE /\ ls' = RemoveAll(ls1)
          /\ ClearSession
  /\ FinishLoading
  /\ ckpc' = "done"
  /\ saved' = NoSaved
  /\ UNCHANGED <<ckStart, probeAccepted, loginVars, loggedOut, regVars, rgot,
                 nRefresh, pageVars>>

\* register's `return await login(email, password)`: what login returned
RegisterResult_registered(result) == [result EXCEPT !.success = TRUE]

RegisterResult(result) == result

\* login after `await authAPI.login(email, password)`; a register call
\* that awaits this login returns its result
AfterLogin(i, resp, ls1, cfg1, rp1) ==
  LET stored  == [ls1 EXCEPT !.access_token = resp.data.access,
                             !.refresh_token = resp.data.refresh]
      decoded == DecodePayload(resp.data.access)
      ok      == IsSuccess(resp) /\ decoded # <<>>
      result  == IF ok THEN Outcome(resp, TRUE, Undefined)
                 ELSE IF IsSuccess(resp)
                      THEN Outcome(resp, FALSE, LoginErrorMessage(NoResponse))
                      ELSE Outcome(resp, FALSE, LoginErrorMessage(resp))
  IN  /\ redirectPending' = rp1
      /\ cfg' = cfg1
      /\ IF ok
         THEN LET userData == UserData(decoded[1], EmailOf(i))
              IN  /\ ls' = [stored EXCEPT !.user = Stringify(userData)]
                  /\ user' = <<userData>>
                  /\ isAuthenticated' = TRUE
                  /\ saved' = [access  |-> resp.data.access,
                               refresh |-> resp.data.refresh,
                               user    |-> <<userData>>]
         ELSE /\ ls' = IF IsSuccess(resp) THEN stored ELSE ls1
              /\ saved' = SavedAfter(ls1)
              /\ UNCHANGED <<user, isAuthenticated>>
      /\ lpc' = [lpc EXCEPT ![i] = "done"]
      /\ lout' = [lout EXCEPT ![i] = result]
      /\ loggedOut' = IF ok /\ lfresh[i] THEN FALSE ELSE loggedOut
      /\ IF i = "reglogin"
         THEN /\ rpc' = "done" /\ rout' = RegisterResult(result)
              /\ UNCHANGED <<sres, vres>>
         ELSE UNCHANGED regVars
      /\ UNCHANGED <<loading, ckVars, refreshExchanged, lfresh, rgot,
                     nRefresh, pageVars>>

\* register after `await authAPI.registerWithOTP(...)`; while the login it
\* starts is awaited, rout holds the response that accepted the registration
AfterRegister(resp, ls1, cfg1, rp1) ==
  /\ redirectPending' = rp1
  /\ ls' = ls1
  /\ saved' = SavedAfter(ls1)
  /\ IF IsSuccess(resp)
     THEN /\ cfg' = [cfg1 EXCEPT !["reglogin"] = Send(ls1)]
          /\ lpc' = [lpc EXCEPT !["reglogin"] = "await"]
          /\ lout' = [lout EXCEPT !["reglogin"] = NoOutcome]
          /\ lfresh' = [lfresh EXCEPT !["reglogin"] = TRUE]
          /\ rpc' = "login"
          /\ rout' = [NoOutcome EXCEPT !.resp = resp]
     ELSE /\ cfg' = cfg1
          /\ rpc' = "done"
          /\ rout' = Outcome(resp, FALSE, RegisterErrorMessage(resp))
          /\ UNCHANGED loginVars
  /\ UNCHANGED <<memVars, ckVars, refreshExchanged, loggedOut, sres, vres,
                 rgot, nRefresh, pageVars>>

\* error.response?.data?.detail || error.response?.data?.error || '...'
SendOTPErrorMessage(resp) ==
  OrElse(resp.data.detail,
         OrElse(resp.data.error, "Failed to send OTP. Please try again."))

\* handleResend after a successful sendOTP: setCountdown(60) and
\* setCanResend(false)
ResendSucceeded_staysEnabled ==
  otpCountdown' = ResendDelay /\ canResend' = canResend /\ elapsed' = 0

ResendSucceeded ==
  otpCountdown' = ResendDelay /\ canResend' = FALSE /\ elapsed' = 0

\* sendOTP after `await authAPI.sendOTP(data)`, and handleResend of the
\* VerifyOTP page after `await sendOTP(...)` when it made the call
AfterSendOTP(resp, ls1, cfg1, rp1) ==
  /\ redirectPending' = rp1
  /\ ls' = ls1
  /\ saved' = SavedAfter(ls1)
  /\ cfg' = cfg1
  /\ sres' = IF IsSuccess(resp)
             THEN [success |-> TRUE, message |-> resp.data.message,
                   otp_code |-> resp.data.otp_code, error |-> Undefined,
                   pending |-> FALSE]
             ELSE [success |-> FALSE, message |-> Undefined,
                   otp_code |-> Undefined,
                   error |-> SendOTPErrorMessage(resp), pending |-> FALSE]
  /\ IF otpMounted /\ resendLoading
     THEN /\ IF sres'.success THEN ResendSucceeded
             ELSE UNCHANGED <<otpCountdown, canResend, elapsed>>
          /\ resendLoading' = FALSE
          /\ UNCHANGED otpMounted
     ELSE UNCHANGED otpVars
  /\ UNCHANGED <<memVars, ckVars, refreshExchanged, loginVars, loggedOut, rpc,
                 rout, vres, rgot, nRefresh, sosVars>>

\* error.response?.data?.message || error.response?.data?.detail || '...'
VerifyOTPErrorMessage_noDefault(resp) ==
  OrElse(resp.data.message, resp.data.detail)

VerifyOTPErrorMessage(resp) ==
  OrElse(resp.data.message,
         OrElse(resp.data.detail, "OTP verification failed."))

\* verifyOTP after `await authAPI.verifyOTP(data)`
AfterVerifyOTP(resp, ls1, cfg1, rp1) ==
  /\ redirectPending' = rp1
  /\ ls' = ls1
  /\ saved' = SavedAfter(ls1)
  /\ cfg' = cfg1
  /\ vres' = IF IsSuccess(resp)
             THEN [resp |-> resp, success |-> resp.data.verified,
                   message |-> resp.data.message, error |-> Undefined,
                   settled |-> TRUE, pending |-> FALSE]
             ELSE [resp |-> resp, success |-> FALSE, message |-> Undefined,
                   error |-> VerifyOTPErrorMessage(resp),
                   settled |-> TRUE, pending |-> FALSE]
  /\ UNCHANGED <<memVars, ckVars, refreshExchanged, loginVars, loggedOut, rpc,
                 rout, sres, rgot, nRefresh, pageVars>>

\* the caller of an ordinary API request gets the response or the error the
\* interceptor chain ends with; replayed says that it is the result of the
\* interceptor's replay
AfterRequest(r, resp, ls1, cfg1, rp1) ==
  /\ redirectPending' = rp1
  /\ ls' = ls1
  /\ saved' = SavedAfter(ls1)
  /\ cfg' = cfg1
  /\ rgot' = [caller |-> r, resp |-> resp, replayed |-> cfg[r].nrep > 0]
  /\ UNCHANGED <<memVars, ckVars, refreshExchanged, loginVars, loggedOut,
                 regVars, nRefresh, pageVars>>

\* triggerEmergency after `await emergencyAPI.triggerEmergency(...)`: the
\* try block goes on to the toast and the call, the catch block to the
\* call; then setSosActive(false) and setCountdown(5)
AfterSOS(c, resp, ls1, cfg1, rp1) ==
  /\ redirectPending' = rp1
  /\ ls' = ls1
  /\ saved' = SavedAfter(ls1)
  /\ cfg' = cfg1
  /\ presses' = [presses EXCEPT
                   ![PressOf(c)].alert =
                       IF IsSuccess(resp) THEN "succeeded" ELSE "failed",
                   ![PressOf(c)].called = TRUE]
  /\ sosActive' = FALSE
  /\ sosCountdown' = SOSDelay
  /\ UNCHANGED <<memVars, ckVars, refreshExchanged, loginVars, loggedOut,
                 regVars, rgot, nRefresh, sosPress, otpVars>>

Settle(c, resp, ls1, cfg1, rp1) ==
  CASE c = "probe"       -> AfterProbe(resp, ls1, cfg1, rp1)
    [] c = "ckrefresh"   -> AfterCkRefresh(resp, ls1, cfg1, rp1)
    [] c \in LoginCallers -> AfterLogin(c, resp, ls1, cfg1, rp1)
    [] c = "register"    -> AfterRegister(resp, ls1, cfg1, rp1)
    [] c = "sendotp"     -> AfterSendOTP(resp, ls1, cfg1, rp1)
    [] c = "verifyotp"   -> AfterVerifyOTP(resp, ls1, cfg1, rp1)
    [] c \in SosCallers  -> AfterSOS(c, resp, ls1, cfg1, rp1)
    [] OTHER             -> AfterRequest(c, resp, ls1, cfg1, rp1)

(***************************************************************************)
(* HTTP client: the response interceptor of `api`.                         *)
(***************************************************************************)
\* error.response?.status === 401 && !originalRequest._retry
NeedsRefresh_anyError(resp, config) == ~IsSuccess(resp) /\ ~config.retry

NeedsRefresh(resp, config) == resp.status = 401 /\ ~config.retry

\* originalRequest._retry = true
MarkRetried_forgets(config) == config

MarkRetried(config) == [config EXCEPT !.retry = TRUE]

\* a successful response goes to the caller
ResponseOk(c) ==
  /\ cfg[c].st = "sent"
  /\ \E resp \in ResponsesFor(c) :
       /\ IsSuccess(resp)
       /\ Settle(c, resp, ls, [cfg EXCEPT ![c] = IdleCall], redirectPending)

\* a 401 on a request not yet retried, with a refresh token in the store:
\* the interceptor posts the refresh token to /token/refresh/
ResponseUnauthorized(c) ==
  /\ cfg[c].st = "sent"
  /\ Truthy(ls.refresh_token)
  /\ \E resp \in ResponsesFor(c) :
       /\ NeedsRefresh(resp, cfg[c])
       /\ cfg' = [cfg EXCEPT ![c] =
                    [MarkRetried(@) EXCEPT !.st = "refreshing",
                                           !.nref = Bump(@),
                                           !.err = resp.status]]
  /\ nRefresh' = IF c \in StartupCallers THEN Bump(nRefresh) ELSE nRefresh
  /\ UNCHANGED <<ls, memVars, redirectPending, ckVars, refreshExchanged,
                 loginVars, loggedOut, regVars, rgot, saved, pageVars>>

\* any other error is rejected to the caller
ResponseRejected(c) ==
  /\ cfg[c].st = "sent"
  /\ \E resp \in ResponsesFor(c) :
       /\ ~IsSuccess(resp)
       /\ ~(NeedsRefresh(resp, cfg[c]) /\ Truthy(ls.refresh_token))
       /\ Settle(c, resp, ls, [cfg EXCEPT ![c] = IdleCall], redirectPending)

\* localStorage.setItem('access_token', access)
StoreAccess_skip(store, access) == store

StoreAccess(store, access) == [store EXCEPT !.access_token = access]

\* originalRequest.headers.Authorization = `Bearer ${access}` and
\* api(originalRequest), which runs the request interceptor again
Replay(config, access, store) ==
  RequestInterceptor([config EXCEPT !.auth = access], store.access_token)

\* the refresh call succeeded: store the new access token, replay the request
RefreshSucceeded(c) ==
  /\ cfg[c].st = "refreshing"
  /\ \E resp \in RefreshResponses :
       /\ IsSuccess(resp)
       /\ ls' = StoreAccess(ls, resp.data.access)
       /\ cfg' = [cfg EXCEPT ![c] =
                    [Replay(@, resp.data.access, ls') EXCEPT
                       !.st = "sent", !.nrep = Bump(@), !.err = 0]]
  /\ refreshExchanged' = (refreshExchanged \/ c \in StartupCallers)
  /\ nRefresh' = IF c = "ckrefresh" THEN Bump(nRefresh) ELSE nRefresh
  /\ saved' = NoSaved
  /\ UNCHANGED <<memVars, redirectPending, ckVars, loginVars, loggedOut,
                 regVars, rgot, pageVars>>

\* the refresh call failed: clear the store, redirect, reject refreshError
RefreshFailed(c) ==
  /\ cfg[c].st = "refreshing"
  /\ \E err \in {Unauthorized, NoResponse} :
       Settle(c, err, RemoveAll(ls), [cfg EXCEPT ![c] = IdleCall], TRUE)

(***************************************************************************)
(* Session Manager: the operations.                                        *)
(***************************************************************************)
\* checkAuth up to its first await (the mount effect of AuthProvider)
CheckAuthStart ==
  /\ ckpc = "init"
  /\ ckStart' = [hasAccess  |-> Truthy(ls.access_token),
                  hasRefresh |-> Truthy(ls.refresh_token),
                  user       |-> ls.user]
  /\ IF Truthy(ls.access_token) /\ Truthy(ls.user)
     THEN /\ cfg' = [cfg EXCEPT !["probe"] = Send(ls)]
          /\ ckpc' = "probe"
          /\ UNCHANGED loading
     ELSE /\ FinishLoading
          /\ ckpc' = "done"
          /\ UNCHANGED cfg
  /\ UNCHANGED <<ls, user, isAuthenticated, redirectPending, probeAccepted,
                 refreshExchanged, loginVars, loggedOut, regVars, rgot,
                 nRefresh, saved, pageVars>>

\* login(email, password) up to its await
LoginStart ==
  /\ ckpc # "init"
  /\ lpc["login"] # "await"
  /\ cfg' = [cfg EXCEPT !["login"] = Send(ls)]
  /\ lpc' = [lpc EXCEPT !["login"] = "await"]
  /\ lout' = [lout EXCEPT !["login"] = NoOutcome]
  /\ lfresh' = [lfresh EXCEPT !["login"] = TRUE]
  /\ UNCHANGED <<ls, memVars, redirectPending, ckVars, refreshExchanged,
                 loggedOut, regVars, rgot, nRefresh, saved, pageVars>>

\* sendOTP(email, phone_number, otp_type) up to its await
SendOTPCall ==
  /\ ckpc # "init"
  /\ ~sres.pending
  /\ cfg' = [cfg EXCEPT !["sendotp"] = Send(ls)]
  /\ sres' = [NoOTPResult EXCEPT !.pending = TRUE]
  /\ UNCHANGED <<ls, memVars, redirectPending, ckVars, refreshExchanged,
                 loginVars, loggedOut, rpc, rout, vres, rgot, nRefresh, saved>>

SendOTPStart == SendOTPCall /\ UNCHANGED pageVars

\* verifyOTP(email, phone_number, otp_code, otp_type) up to its await
VerifyOTPStart ==
  /\ ckpc # "init"
  /\ ~vres.pending
  /\ cfg' = [cfg EXCEPT !["verifyotp"] = Send(ls)]
  /\ vres' = [NoVerifyResult EXCEPT !.pending = TRUE]
  /\ UNCHANGED <<ls, memVars, redirectPending, ckVars, refreshExchanged,
                 loginVars, loggedOut, rpc, rout, sres, rgot, nRefresh, saved,
                 pageVars>>

\* register(email, password, userType, otpCode) up to its first await; the
\* verify-otp page is entered only with the form data a successful sendOTP
\* handed over
RegisterStart ==
  /\ ckpc # "init"
  /\ sres.success
  /\ rpc \in {"idle", "done"}
  /\ cfg' = [cfg EXCEPT !["register"] = Send(ls)]
  /\ rpc' = "register"
  /\ rout' = NoOutcome
  /\ UNCHANGED <<ls, memVars, redirectPending, ckVars, refreshExchanged,
                 loginVars, loggedOut, sres, vres, rgot, nRefresh, saved,
                 pageVars>>

\* logout()
Logout ==
  /\ ckpc # "init"
  /\ ls' = RemoveAll(ls)
  /\ ClearSession
  /\ loggedOut' = TRUE
  /\ lfresh' = [i \in LoginCallers |-> FALSE]
  /\ saved' = NoSaved
  /\ UNCHANGED <<loading, cfg, redirectPending, ckVars, refreshExchanged, lpc,
                 lout, regVars, rgot, nRefresh, pageVars>>

\* a page component sends an ordinary API request
SendRequest(r) ==
  /\ cfg[r].st = "idle"
  /\ cfg' = [cfg EXCEPT ![r] = Send(ls)]
  /\ UNCHANGED <<ls, memVars, redirectPending, ckVars, refreshExchanged,
                 loginVars, loggedOut, regVars, rgot, nRefresh, saved,
                 pageVars>>

\* the page is unloaded and the app is loaded afresh: only the Token Store
\* survives, and no response to the old page's calls is delivered any more
Mount ==
  /\ user' = Null
  /\ isAuthenticated' = FALSE
  /\ loading' = TRUE
  /\ cfg' = [c \in Callers |-> IdleCall]
  /\ redirectPending' = FALSE
  /\ ckpc' = "init"
  /\ ckStart' = NotStarted
  /\ probeAccepted' = FALSE
  /\ refreshExchanged' = FALSE
  /\ nRefresh' = 0
  /\ lpc' = [i \in LoginCallers |-> "idle"]
  /\ lout' = [i \in LoginCallers |-> NoOutcome]
  /\ lfresh' = [i \in LoginCallers |-> FALSE]
  /\ rpc' = "idle"
  /\ rout' = NoOutcome
  /\ sres' = NoOTPResult
  /\ vres' = NoVerifyResult
  /\ rgot' = NoResult
  /\ loggedOut' = FALSE
  /\ sosActive' = FALSE
  /\ sosCountdown' = SOSDelay
  /\ sosPress' = 0
  /\ presses' = [p \in Presses |-> NoPress]
  /\ otpMounted' = FALSE
  /\ otpCountdown' = ResendDelay
  /\ canResend' = FALSE
  /\ resendLoading' = FALSE
  /\ elapsed' = 0
  /\ UNCHANGED <<ls, saved>>

\* the browser follows the redirect to /login
PageLoad == redirectPending /\ Mount

\* the user reloads the page, or closes the tab and opens the app again
Reload == ~redirectPending /\ ckpc # "init" /\ Mount

(***************************************************************************)
(* Emergency page: the SOS button.                                         *)
(***************************************************************************)
sessionVars == <<ls, memVars, cfg, redirectPending, ckVars, refreshExchanged,
                 nRefresh, loginVars, loggedOut, regVars, rgot, saved>>

\* handleSOSPress: the SOS button is rendered while sosActive is false
HandleSOSPress ==
  /\ ckpc # "init"
  /\ ~sosActive
  /\ sosPress < MaxPress
  /\ sosActive' = TRUE
  /\ sosCountdown' = SOSDelay
  /\ sosPress' = sosPress + 1
  /\ UNCHANGED <<sessionVars, presses, otpVars>>

\* cancelSOS: the cancel button is rendered while sosActive is true
CancelSOS ==
  /\ sosActive
  /\ sosActive' = FALSE
  /\ sosCountdown' = SOSDelay
  /\ presses' = [presses EXCEPT ![sosPress].cancelled = TRUE]
  /\ UNCHANGED <<sessionVars, sosPress, otpVars>>

\* the countdown effect's timer fires: setCountdown(countdown - 1)
SOSTick ==
  /\ sosActive
  /\ sosCountdown > 0
  /\ sosCountdown' = sosCountdown - 1
  /\ UNCHANGED <<sessionVars, sosActive, sosPress, presses, otpVars>>

\* the countdown effect at 0 calls triggerEmergency, which runs up to its
\* await when the user is authenticated and to its end when not
TriggerEmergency ==
  /\ sosActive
  /\ sosCountdown = 0
  /\ presses[sosPress].alert = "none"
  /\ IF isAuthenticated
     THEN /\ cfg' = [cfg EXCEPT ![SosCall(sosPress)] = Send(ls)]
          /\ presses' = [presses EXCEPT ![sosPress].alert = "sent"]
          /\ UNCHANGED <<sosActive, sosCountdown>>
     ELSE /\ presses' = [presses EXCEPT ![sosPress].alert = "skipped",
                                        ![sosPress].called = TRUE]
          /\ sosActive' = FALSE
          /\ sosCountdown' = SOSDelay
          /\ UNCHANGED cfg
  /\ UNCHANGED <<ls, memVars, redirectPending, ckVars, refreshExchanged,
                 nRefresh, loginVars, loggedOut, regVars, rgot, saved,
                 sosPress, otpVars>>

(***************************************************************************)
(* VerifyOTP page: the resend countdown.                                   *)
(***************************************************************************)
\* the page mounts: Register.handleSubmit navigates to /verify-otp once its
\* sendOTP has succeeded, and PublicRoute shows the page
EnterVerifyOTP ==
  /\ ~loading /\ ~isAuthenticated
  /\ sres.success
  /\ ~otpMounted
  /\ otpMounted' = TRUE
  /\ otpCountdown' = ResendDelay
  /\ canResend' = FALSE
  /\ resendLoading' = FALSE
  /\ elapsed' = 0
  /\ UNCHANGED <<sessionVars, sosVars>>

\* the router leaves the page: its state is gone
LeaveVerifyOTP ==
  /\ otpMounted
  /\ otpMounted' = FALSE
  /\ otpCountdown' = ResendDelay
  /\ canResend' = FALSE
  /\ resendLoading' = FALSE
  /\ elapsed' = 0
  /\ UNCHANGED <<sessionVars, sosVars>>

\* the countdown effect's timer fires: setCountdown(countdown - 1); the
\* effect of the render with countdown 0 runs setCanResend(true)
ResendTick ==
  /\ otpMounted
  /\ otpCountdown > 0
  /\ otpCountdown' = otpCountdown - 1
  /\ canResend' = IF otpCountdown' = 0 THEN TRUE ELSE canResend
  /\ elapsed' = IF elapsed < ResendDelay THEN elapsed + 1 ELSE elapsed
  /\ UNCHANGED <<sessionVars, sosVars, otpMounted, resendLoading>>

\* handleResend up to its await: the resend button is rendered while
\* canResend is true and is disabled while resendLoading is true
HandleResend ==
  /\ otpMounted
  /\ ~loading /\ ~isAuthenticated
  /\ canResend
  /\ ~resendLoading
  /\ resendLoading' = TRUE
  /\ SendOTPCall
  /\ UNCHANGED <<sosVars, otpMounted, otpCountdown, canResend, elapsed>>

\* ProtectedRoute and PublicRoute show a spinner instead of the page while
\* loading is true
PageRendered == ~loading

\* what ProtectedRoute returns for the state it reads from useAuth(): the
\* spinner, its children (the Profile page), or <Navigate to="/login" />
ProtectedRoute_noSpinner(ld, auth) ==
  IF auth THEN "children" ELSE "Navigate /login"

ProtectedRoute(ld, auth) ==
  IF ld THEN "spinner"
  ELSE IF auth THEN "children" ELSE "Navigate /login"

\* what the routes /profile and /appointments render in the current state
ProtectedElement == ProtectedRoute(loading, isAuthenticated)

\* PublicRoute shows its page (login, register, verify-otp) to a session
\* that is not authenticated
PublicPage == PageRendered /\ ~isAuthenticated

\* no Session Manager operation is awaiting its call
NoOperationPending ==
  /\ \A i \in LoginCallers : lpc[i] # "await"
  /\ rpc \in {"idle", "done"}
  /\ ~sres.pending
  /\ ~vres.pending

\* which page's operations have been used since the page was entered: the
\* login page (login), the register and verify-otp pages (sendOTP,
\* register), a caller of verifyOTP
LoginPageIdle == lpc["login"] = "idle"
RegisterPagesIdle ==
  rpc = "idle" /\ sres = NoOTPResult /\ lpc["reglogin"] = "idle"
VerifyIdle == vres = NoVerifyResult

\* the router shows another page: the handlers of the page left are gone
\* and with them the results they were given
Navigate ==
  /\ NoOperationPending
  /\ ~(LoginPageIdle /\ RegisterPagesIdle /\ VerifyIdle)
  /\ lpc' = [i \in LoginCallers |-> "idle"]
  /\ lout' = [i \in LoginCallers |-> NoOutcome]
  /\ lfresh' = [i \in LoginCallers |-> FALSE]
  /\ rpc' = "idle"
  /\ rout' = NoOutcome
  /\ sres' = NoOTPResult
  /\ vres' = NoVerifyResult
  /\ UNCHANGED <<ls, memVars, cfg, redirectPending, ckVars, refreshExchanged,
                 loggedOut, rgot, nRefresh, saved, pageVars>>

\* the Login page's form is submitted
LoginSubmit == PublicPage /\ LoginStart

\* the Register page's form is submitted, or the verify-otp page's resend
\* button is pressed
SendOTPSubmit == PublicPage /\ SendOTPStart

\* the verify-otp page's form is submitted
RegisterSubmit == PublicPage /\ RegisterStart

\* the Register page's form is submitted, the VerifyOTP page not being
\* the one shown
RegisterPageSubmit == ~otpMounted /\ SendOTPSubmit

\* the same, and a component's call of verifyOTP, with no other operation
\* pending and none of another page used since the page was entered
LoginAlone ==
  NoOperationPending /\ RegisterPagesIdle /\ VerifyIdle /\ LoginSubmit
SendOTPAlone ==
  NoOperationPending /\ LoginPageIdle /\ VerifyIdle /\ SendOTPSubmit
RegisterAlone ==
  NoOperationPending /\ LoginPageIdle /\ VerifyIdle /\ RegisterSubmit
VerifyOTPAlone ==
  /\ PageRendered /\ NoOperationPending
  /\ LoginPageIdle /\ RegisterPagesIdle
  /\ VerifyOTPStart

\* the Navbar's logout button, which an authenticated session is shown
NavbarLogout == isAuthenticated /\ Logout

(***************************************************************************)
(* Specifications.                                                         *)
(***************************************************************************)
SessionCallers == StartupCallers \cup {"login"}
ClientCallers  == StartupCallers \cup Reqs
RegCallers     == StartupCallers \cup {"register", "reglogin", "sendotp"}
OpCallers      == RegCallers \cup {"login", "verifyotp"}

\* the Session Manager: startup validation, login and logout over the
\* HTTP client
Next ==
  \/ CheckAuthStart
  \/ LoginStart
  \/ Logout
  \/ PageLoad
  \/ \E c \in SessionCallers : ResponseOk(c)
  \/ \E c \in SessionCallers : ResponseUnauthorized(c)
  \/ \E c \in SessionCallers : ResponseRejected(c)
  \/ \E c \in SessionCallers : RefreshSucceeded(c)
  \/ \E c \in SessionCallers : RefreshFailed(c)

Spec == Init /\ [][Next]_vars

\* the Session Manager over any content of the Token Store
SpecAnyStore == InitAnyStore /\ [][Next]_vars

\* the Session Manager across page loads
NextReload ==
  \/ CheckAuthStart
  \/ LoginStart
  \/ Logout
  \/ PageLoad
  \/ Reload
  \/ \E c \in SessionCallers : ResponseOk(c)
  \/ \E c \in SessionCallers : ResponseUnauthorized(c)
  \/ \E c \in SessionCallers : ResponseRejected(c)
  \/ \E c \in SessionCallers : RefreshSucceeded(c)
  \/ \E c \in SessionCallers : RefreshFailed(c)

SpecReload == Init /\ [][NextReload]_vars

\* the HTTP client: concurrent API requests next to startup validation
\* and logout
NextClient ==
  \/ CheckAuthStart
  \/ Logout
  \/ PageLoad
  \/ \E r \in Reqs : SendRequest(r)
  \/ \E c \in ClientCallers : ResponseOk(c)
  \/ \E c \in ClientCallers : ResponseUnauthorized(c)
  \/ \E c \in ClientCallers : ResponseRejected(c)
  \/ \E c \in ClientCallers : RefreshSucceeded(c)
  \/ \E c \in ClientCallers : RefreshFailed(c)

SpecClient == Init /\ [][NextClient]_vars

NextRegister ==
  \/ CheckAuthStart
  \/ SendOTPSubmit
  \/ RegisterSubmit
  \/ NavbarLogout
  \/ PageLoad
  \/ \E c \in RegCallers : ResponseOk(c)
  \/ \E c \in RegCallers : ResponseUnauthorized(c)
  \/ \E c \in RegCallers : ResponseRejected(c)
  \/ \E c \in RegCallers : RefreshSucceeded(c)
  \/ \E c \in RegCallers : RefreshFailed(c)

\* the registration flow on the register and verify-otp pages, where a
\* resend of the OTP may run next to register
SpecRegister == Init /\ [][NextRegister]_vars

\* the four operations of the Session Manager that return a result, as the
\* pages use them: once the route guards render a page, one page and one
\* operation at a time
NextOps ==
  \/ CheckAuthStart
  \/ LoginAlone
  \/ SendOTPAlone
  \/ RegisterAlone
  \/ VerifyOTPAlone
  \/ Navigate
  \/ NavbarLogout
  \/ PageLoad
  \/ \E c \in OpCallers : ResponseOk(c)
  \/ \E c \in OpCallers : ResponseUnauthorized(c)
  \/ \E c \in OpCallers : ResponseRejected(c)
  \/ \E c \in OpCallers : RefreshSucceeded(c)
  \/ \E c \in OpCallers : RefreshFailed(c)

SpecOps == Init /\ [][NextOps]_vars

\* the Emergency page, which is shown to everyone, next to startup
\* validation and the Navbar's logout
EmergencyCallers == StartupCallers \cup SosCallers

NextEmergency ==
  \/ CheckAuthStart
  \/ NavbarLogout
  \/ PageLoad
  \/ HandleSOSPress
  \/ CancelSOS
  \/ SOSTick
  \/ TriggerEmergency
  \/ \E c \in EmergencyCallers : ResponseOk(c)
  \/ \E c \in EmergencyCallers : ResponseUnauthorized(c)
  \/ \E c \in EmergencyCallers : ResponseRejected(c)
  \/ \E c \in EmergencyCallers : RefreshSucceeded(c)
  \/ \E c \in EmergencyCallers : RefreshFailed(c)

\* the Register page and the VerifyOTP page with its resend countdown, next
\* to startup validation
ResendCallers == StartupCallers \cup {"sendotp"}

NextResend ==
  \/ CheckAuthStart
  \/ PageLoad
  \/ RegisterPageSubmit
  \/ EnterVerifyOTP
  \/ LeaveVerifyOTP
  \/ ResendTick
  \/ HandleResend
  \/ \E c \in ResendCallers : ResponseOk(c)
  \/ \E c \in ResendCallers : ResponseUnauthorized(c)
  \/ \E c \in ResendCallers : ResponseRejected(c)
  \/ \E c \in ResendCallers : RefreshSucceeded(c)
  \/ \E c \in ResendCallers : RefreshFailed(c)

SpecResend == Init /\ [][NextResend]_vars

\* a network call that was issued is answered: the call of caller c gets
\* its response or its error, the interceptor's refresh call for c likewise
Answered(c) ==
  ResponseOk(c) \/ ResponseUnauthorized(c) \/ ResponseRejected(c)
RefreshAnswered(c) == RefreshSucceeded(c) \/ RefreshFailed(c)

\* the mount effect of AuthProvider runs, and every call of startup
\* validation (probe, refresh, their replays and the refresh calls the
\* interceptor makes for them) eventually resolves or rejects
StartupFairness ==
  /\ WF_vars(CheckAuthStart)
  /\ \A c \in StartupCallers : WF_vars(Answered(c))
  /\ \A c \in StartupCallers : WF_vars(RefreshAnswered(c))

\* the mount effect runs, the countdown's timer fires and its effect runs,
\* every call of startup validation and every alert is answered, and the
\* browser follows the interceptor's redirect
EmergencyFairness ==
  /\ WF_vars(CheckAuthStart)
  /\ WF_vars(SOSTick)
  /\ WF_vars(TriggerEmergency)
  /\ WF_vars(PageLoad)
  /\ \A c \in EmergencyCallers : WF_vars(Answered(c))
  /\ \A c \in EmergencyCallers : WF_vars(RefreshAnswered(c))

SpecEmergency == Init /\ [][NextEmergency]_vars /\ EmergencyFairness

\* startup validation next to what the rendered app can do meanwhile: the
\* Login page and the Navbar once the route guards show them, and an API
\* request of a page that is shown to everyone
OneReq == {"r1"}
StartupCallersAndOthers == SessionCallers \cup OneReq

NextStartup ==
  \/ CheckAuthStart
  \/ LoginSubmit
  \/ NavbarLogout
  \/ PageLoad
  \/ \E r \in OneReq : SendRequest(r)
  \/ \E c \in StartupCallersAndOthers : ResponseOk(c)
  \/ \E c \in StartupCallersAndOthers : ResponseUnauthorized(c)
  \/ \E c \in StartupCallersAndOthers : ResponseRejected(c)
  \/ \E c \in StartupCallersAndOthers : RefreshSucceeded(c)
  \/ \E c \in StartupCallersAndOthers : RefreshFailed(c)

\* the same over any content of the Token Store, with a network that
\* answers the calls of startup validation
SpecStartup == InitAnyStore /\ [][NextStartup]_vars /\ StartupFairness

(***************************************************************************)
(* Properties.                                                             *)
(***************************************************************************)
InFlightRefreshes == {c \in Callers : cfg[c].st = "refreshing"}

\* C1: however many requests receive a 401 before a refresh has resolved,
\* only one of them performs the refresh exchange: at no time is more than
\* one interceptor refresh call in flight.
C1_SingleFlightRefresh == Cardinality(InFlightRefreshes) <= 1

\* how many network calls a request may still cause
Rank(config) ==
  CASE config.st = "idle"       -> 0
    [] config.st = "refreshing" -> 2
    [] config.retry             -> 1
    [] OTHER                    -> 3

\* C2: for every request the interceptor makes at most one refresh call and
\* at most one replay; a replayed request that comes back is settled, never
\* refreshed again; and every response to a request brings it strictly
\* nearer to being settled, so no request loops.
C2_RefreshAndReplayAtMostOnce ==
  [][\A c \in Callers :
       /\ cfg'[c].nref <= 1
       /\ cfg'[c].nrep <= 1
       /\ (cfg[c].st = "sent" /\ cfg[c].retry /\ cfg'[c] # cfg[c])
             => cfg'[c].st = "idle"
       /\ (cfg[c].st # "idle" /\ cfg'[c] # cfg[c])
             => Rank(cfg'[c]) < Rank(cfg[c])]_vars

\* a request that was refreshed once is being replayed
C2_Witness ==
  \E c \in Reqs : cfg[c].st = "sent" /\ cfg[c].retry
                  /\ cfg[c].nref = 1 /\ cfg[c].nrep = 1

\* C3: logout() can run in every state after the mount, Initializing
\* included, and leaves the Token Store without any of the three entries
\* and the in-memory state Unauthenticated.
C3_LogoutClearsEverything ==
  /\ [](ckpc # "init" => ENABLED Logout)
  /\ [][Logout => /\ ls' = EmptyStore
                  /\ user' = Null
                  /\ isAuthenticated' = FALSE]_vars

\* logout() ran while startup validation was still waiting for its probe,
\* over a store that held all three entries
C3_Witness ==
  /\ loggedOut /\ loading /\ ckpc = "probe" /\ ckStart.hasRefresh
  /\ ls = EmptyStore /\ user = Null /\ ~isAuthenticated

\* startup validation finishes in this step
StartupFinishes == loading /\ ~loading'

\* C4: when startup finds an access token but no refresh token, startup
\* validation finishes Unauthenticated.
C4_AccessOnlyStartsLoggedOut ==
  [][(StartupFinishes /\ ckStart'.hasAccess /\ ~ckStart'.hasRefresh)
        => ~isAuthenticated']_vars

\* C5: startup validation finishes Authenticated only if the probe was
\* accepted or a refresh exchange succeeded, and finishes Unauthenticated
\* if no TokenPair was stored or both probe and refresh failed.
C5_StartupTransitions ==
  [][StartupFinishes =>
       /\ isAuthenticated' => (probeAccepted' \/ refreshExchanged')
       /\ (\/ ~(ckStart'.hasAccess /\ ckStart'.hasRefresh)
           \/ (~probeAccepted' /\ ~refreshExchanged'))
             => ~isAuthenticated']_vars

\* C6: after logout() the session stays Unauthenticated until a login that
\* was started after that logout succeeds: responses to older operations
\* are discarded.
C6_StaleResponsesDiscarded ==
  loggedOut => (~isAuthenticated /\ user = Null)

\* C7: the Token Store holds the access token and the refresh token
\* together or not at all.
C7_TokenPairStoredAsUnit ==
  Truthy(ls.access_token) <=> Truthy(ls.refresh_token)

\* login call i settles in this step
LoginSettles(i) == lpc[i] = "await" /\ lpc'[i] = "done"

\* C8: a login whose response carries {access, refresh} with a decodable
\* access token succeeds, is Authenticated with the id and (when the token
\* carries one) the role of the token's claims, and has both tokens and the
\* user in the Token Store.
C8_LoginDecodesClaims ==
  [][\A i \in LoginCallers :
       LET resp   == lout'[i].resp
           claims == DecodePayload(resp.data.access)
       IN  (LoginSettles(i) /\ IsSuccess(resp) /\ claims # <<>>)
             => /\ lout'[i].success
                /\ isAuthenticated'
                /\ user' # Null
                /\ user'[1].id = claims[1].user_id
                /\ user'[1].email = EmailOf(i)
                /\ claims[1].user_type # Undefined
                      => user'[1].user_type = claims[1].user_type
                /\ ls'.access_token = resp.data.access
                /\ ls'.refresh_token = resp.data.refresh
                /\ ParseUser(ls'.user) = user']_vars

\* a login with a doctor's token has succeeded
C8_Witness ==
  /\ lout["login"].settled /\ lout["login"].success
  /\ lout["login"].resp.data.access = TokDoctor
  /\ isAuthenticated
  /\ user = <<[id |-> "u2", email |-> "e1", user_type |-> "doctor"]>>
  /\ ls.access_token = TokDoctor /\ ls.refresh_token = RefLogin

\* C9: a login attempt either succeeds and leaves all three entries of the
\* Token Store reflecting it, or fails and changes none of them.
C9_LoginSavesAsUnit ==
  [][\A i \in LoginCallers :
       LoginSettles(i) =>
         IF lout'[i].success
         THEN /\ ls'.access_token = lout'[i].resp.data.access
              /\ ls'.refresh_token = lout'[i].resp.data.refresh
              /\ ParseUser(ls'.user) = user'
         ELSE ls' = ls]_vars

\* the reasons a register-with-otp error body carries
Reasons(resp) ==
  {resp.data.email, resp.data.otp_code, resp.data.detail} \ {Undefined}

\* register's call to register-with-otp is rejected by the server in this step
RegisterRejected ==
  rpc = "register" /\ rpc' = "done" /\ rout'.resp.status = 400

\* C10: after a successful sendOTP, a register call the server rejects
\* returns {success: false} with one of the reasons of the error body as
\* its error, changes neither the session state nor the Token Store, and
\* starts no login.
C10_RejectedRegister ==
  [][RegisterRejected =>
       /\ ~rout'.success
       /\ rout'.error \in Reasons(rout'.resp)
       /\ rout'.error \notin {Undefined, ""}
       /\ UNCHANGED <<user, isAuthenticated, ls, lpc, lout>>
       /\ ~isAuthenticated => ~isAuthenticated'
       /\ cfg["reglogin"].st = "idle" /\ cfg'["reglogin"].st = "idle"]_vars

\* register was rejected for its OTP code and the session is Unauthenticated
C10_Witness ==
  /\ sres.success /\ cfg["sendotp"].st = "idle"
  /\ rpc = "done" /\ rout.settled /\ ~rout.success
  /\ rout.resp.status = 400
  /\ rout.error = "invalid or expired otp"
  /\ ~isAuthenticated /\ lpc["reglogin"] = "idle"

\* register's login call is sent in this step
RegisterCallsLogin ==
  cfg["reglogin"].st = "idle" /\ cfg'["reglogin"].st = "sent"

\* register returns in this step, from its login
RegisterReturnsFromLogin == rpc = "login" /\ rpc' = "done"

\* C11: register sends its login call only in the step in which
\* register-with-otp accepted the request; it returns {success: true} only
\* from a login that succeeded after an accepted registration, and the
\* session is then Authenticated; when the registration was accepted and
\* the login fails, it returns {success: false} and an Unauthenticated
\* session stays Unauthenticated.
C11_RegisterThenLogin ==
  /\ [](rpc = "login" => IsSuccess(rout.resp))
  /\ [][/\ RegisterCallsLogin
            => /\ rpc = "register" /\ rpc' = "login"
               /\ cfg["register"].st = "sent"
               /\ IsSuccess(rout'.resp)
        /\ (rout'.settled /\ rout'.success /\ ~rout.settled)
            => /\ RegisterReturnsFromLogin
               /\ IsSuccess(rout.resp)
               /\ lout'["reglogin"].success
               /\ isAuthenticated'
        /\ (RegisterReturnsFromLogin /\ ~lout'["reglogin"].success)
            => /\ ~rout'.success
               /\ ~isAuthenticated => ~isAuthenticated']_vars

\* the registration was accepted, the login that followed failed and
\* register returned {success: false} to an Unauthenticated session
C11_Witness ==
  /\ rpc = "done" /\ rout.settled /\ ~rout.success
  /\ lpc["reglogin"] = "done" /\ lout["reglogin"].settled
  /\ ~lout["reglogin"].success
  /\ ~isAuthenticated

\* the call of caller c settles in this step: its response, or the error of
\* a failed interceptor refresh, reaches the operation that awaits it
CallSettles(c) ==
  cfg[c].st # "idle" /\ cfg'[c].st = "idle" /\ ckpc' # "init"

\* a result {success: false, error}
IsFailure(res) == res.success = FALSE /\ res.error \notin {Undefined, ""}
\* a result {success: true} without an error
IsSuccessResult(res) == res.success = TRUE /\ res.error = Undefined

\* C12: whatever the HTTP call of login, register, sendOTP or verifyOTP
\* settles with (a success, a 4xx with field errors, a 401, no response,
\* the error of a failed interceptor refresh), the operation returns a
\* result in that very step -- register after an accepted registration
\* goes on to its login instead -- whose success is a boolean; when the
\* call failed, success is false and error is a non-empty string.
C12_OperationsReturnResults ==
  [][/\ \A i \in LoginCallers :
          CallSettles(i) =>
            /\ LoginSettles(i)
            /\ lout'[i].settled
            /\ IsSuccessResult(lout'[i]) \/ IsFailure(lout'[i])
            /\ ~IsSuccess(lout'[i].resp) => IsFailure(lout'[i])
     /\ CallSettles("register") =>
            \/ rpc' = "login" /\ IsSuccess(rout'.resp) /\ ~rout'.settled
            \/ /\ rpc' = "done" /\ rout'.settled
               /\ ~IsSuccess(rout'.resp) /\ IsFailure(rout')
     /\ CallSettles("reglogin") =>
            /\ rpc' = "done" /\ rout'.settled
            /\ IsSuccessResult(rout') \/ IsFailure(rout')
            /\ ~IsSuccess(rout'.resp) => IsFailure(rout')
     /\ CallSettles("sendotp") =>
            /\ ~sres'.pending
            /\ IsSuccessResult(sres') \/ IsFailure(sres')
     /\ CallSettles("verifyotp") =>
            /\ ~vres'.pending /\ vres'.settled
            /\ vres'.success \in BOOLEAN
            /\ ~IsSuccess(vres'.resp) => IsFailure(vres')]_vars

\* verifyOTP returned {success: false} with its default message after the
\* interceptor's refresh for its 401 got no response
C12_Witness ==
  /\ vres.settled /\ ~vres.pending /\ ~vres.success
  /\ vres.resp = NoResponse
  /\ vres.error = "OTP verification failed."
  /\ redirectPending /\ ls = EmptyStore /\ ~loading

\* the interceptor's refresh for the request of caller c succeeds in this step
RefreshSucceeds(c) == cfg[c].st = "refreshing" /\ cfg'[c].st = "sent"

\* C13: in the step in which the interceptor's refresh call succeeds, the
\* new access token is in the Token Store and the original request is
\* replayed, for the first and only time, with the new token as its bearer
\* credential; when the replay settles, its caller is handed the replay's
\* response or error.
C13_RefreshThenReplay ==
  [][\A c \in Callers :
       /\ RefreshSucceeds(c)
            => /\ ls'.access_token = TokNew
               /\ cfg'[c].auth = TokNew
               /\ cfg[c].nrep = 0 /\ cfg'[c].nrep = 1
               /\ cfg'[c].retry
       /\ cfg'[c].nrep <= 1
       /\ (c \in Reqs /\ cfg[c].nrep = 1 /\ CallSettles(c))
            => /\ cfg[c].st = "sent"
               /\ rgot'.caller = c /\ rgot'.replayed
               /\ rgot'.resp \in PlainResponses]_vars

\* a request that got a 401 was replayed with the new token and its caller
\* got the replay's 200
C13_Witness ==
  /\ rgot.caller \in Reqs /\ rgot.replayed /\ rgot.resp.status = 200
  /\ cfg[rgot.caller].st = "idle"
  /\ ls.access_token = TokNew

\* the interceptor's refresh for the request of caller c fails in this step
RefreshFails(c) == cfg[c].st = "refreshing" /\ CallSettles(c)

\* C14: in the step in which the interceptor's refresh call fails, the
\* three entries of the Token Store are removed, the Session Manager is
\* Unauthenticated, the navigation to the login page is under way and the
\* original request fails to its caller.
C14_FailedRefreshLogsOut ==
  [][\A c \in Callers :
       RefreshFails(c)
         => /\ ls' = EmptyStore
            /\ ~isAuthenticated' /\ user' = Null
            /\ redirectPending'
            /\ c \in Reqs => (rgot'.caller = c /\ ~IsSuccess(rgot'.resp))]_vars

\* navigate('/verify-otp', {state: {..., debugOTP: result.otp_code}}): what
\* the Register page hands to the verify-otp page after a successful sendOTP
debugOTP == IF sres.success THEN sres.otp_code ELSE Undefined

\* C15: the result of sendOTP has no otp_code, and the Register page
\* passes no debugOTP to the verify-otp page, whatever the body of the
\* send-otp response contains.  (The source has one build: nowhere does it
\* read the build configuration.)
C15_NoOTPCodeInResult ==
  sres.otp_code = Undefined /\ debugOTP = Undefined

\* C16: during one startup validation the token-refresh endpoint is called
\* at most once, counting the refresh call of checkAuth, the interceptor's
\* refresh calls for the probe and for that refresh request, and the
\* replay of the refresh request.
C16_OneRefreshPerStartup == nRefresh <= 1

\* a request of caller c goes out in this step: a new one, or a replay
Sends(c) == cfg[c].st # "sent" /\ cfg'[c].st = "sent"

\* C17: a request that api sends carries as its bearer credential the
\* access token that is in the Token Store when it is sent -- after a
\* refresh or a login the new token, never the one before -- and no
\* Authorization header when no access token is stored.
C17_BearerIsCurrentToken ==
  [][\A c \in Callers : Sends(c) => cfg'[c].auth = ls'.access_token]_vars

\* the startup refresh request went out with the token of a login that
\* succeeded after the probe had been sent with the token stored before
C17_Witness ==
  /\ cfg["ckrefresh"].st = "sent" /\ cfg["ckrefresh"].auth = TokDoctor
  /\ ls.access_token = TokDoctor /\ ckStart.hasAccess

\* startup validation reads the Token Store in this step
StartupReads == ckpc = "init" /\ ckpc' # "init"

\* C18: when startup validation reads the Token Store and a successful
\* login persisted a TokenPair and a user with no logout or refresh since,
\* it reads that access token, that refresh token and a user text that
\* parses to that user.
C18_SavedThenLoaded ==
  [][(StartupReads /\ saved # NoSaved)
       => /\ ls.access_token = saved.access
          /\ ls.refresh_token = saved.refresh
          /\ ckStart'.user = ls.user
          /\ ParseUser(ls.user) = saved.user]_vars

\* C19: loading is true exactly from the mount until startup validation
\* finishes; it becomes false in the step that finishes startup validation
\* and in no other, and once false it stays false whatever operation runs
\* (login, register, sendOTP, verifyOTP, logout, an interceptor refresh):
\* only a new mount of the app starts with loading true again.
C19_LoadingOnlyDuringStartup ==
  /\ [](loading <=> ckpc # "done")
  /\ [][/\ (loading /\ ~loading') => (ckpc # "done" /\ ckpc' = "done")
        /\ (~loading /\ loading') => (redirectPending /\ ckpc' = "init")
        /\ (~loading /\ ckpc' # "init") => ~loading']_vars

\* startup validation is over and a sendOTP, a register with its login and a
\* logout have run since: loading is false
C19_Witness ==
  /\ ~loading /\ ckpc = "done"
  /\ sres.success /\ rout.settled /\ lout["reglogin"].settled /\ loggedOut

\* C20: whenever isAuthenticated is true, the Token Store holds the access
\* token, the refresh token and the user, and the stored user is the
\* in-memory user.
C20_AuthenticatedOverFullStore ==
  isAuthenticated =>
    /\ Truthy(ls.access_token)
    /\ Truthy(ls.refresh_token)
    /\ Truthy(ls.user)
    /\ ParseUser(ls.user) = user

\* C21: in every state, and so after every completed operation of the
\* Session Manager, isAuthenticated is true if and only if user is not
\* null: checkAuth, login and logout set the two in the same step
C21_AuthenticatedIffUser == isAuthenticated <=> user # Null

\* a login has authenticated the session and a later logout has cleared it
C21_Witness ==
  /\ lpc["login"] = "done" /\ lout["login"].success
  /\ loggedOut
  /\ ~isAuthenticated /\ user = Null

\* C22: startup validation always terminates: whatever the Token Store
\* holds at the mount (a user entry that cannot be parsed and a missing
\* refresh token included), when every call of startup validation is
\* answered, a Session Manager that is Initializing (loading is true)
\* eventually has loading false
C22_StartupTerminates == loading ~> ~loading

\* startup has finished over a store whose user entry cannot be parsed and
\* that has no refresh token, after the probe was accepted
C22_Witness ==
  /\ ~loading /\ ckpc = "done"
  /\ ckStart.user = CorruptText /\ ~ckStart.hasRefresh
  /\ probeAccepted

\* startup validation ends Authenticated through its refresh call
StartupRefreshSucceeds ==
  ckpc = "refresh" /\ ckpc' = "done" /\ isAuthenticated'

\* C23: a step in which a token refresh succeeds, the interceptor's or the
\* one of startup validation, leaves the stored refresh token and the stored
\* user as they were, and the user that startup validation puts in memory
\* in that step is the stored user
C23_RefreshChangesAccessOnly ==
  [][/\ \A c \in Callers :
          RefreshSucceeds(c) =>
            /\ ls'.refresh_token = ls.refresh_token
            /\ ls'.user = ls.user
     /\ StartupRefreshSucceeds =>
          /\ ls'.refresh_token = ls.refresh_token
          /\ ls'.user = ls.user
          /\ user' = ParseUser(ls'.user)]_vars

\* the interceptor posts the refresh token for the request of caller c
StartsRefresh(c) == cfg[c].st = "sent" /\ cfg'[c].st = "refreshing"

\* the request of caller c fails without a refresh call: its error goes
\* from the wire to the caller
FailsUnrefreshed(r) ==
  cfg[r].st = "sent" /\ CallSettles(r) /\ ~IsSuccess(rgot'.resp)

\* C24: the interceptor starts a refresh call only for an error of status
\* 401 on a request that is not marked as retried, with a refresh token in
\* the store; a request that fails in any other way (another status, no
\* response, a 401 with no refresh token stored, a 401 on a retried
\* request) fails with that error, and the step leaves the Token Store and
\* the redirect as they were and starts no refresh call
C24_RefreshOnlyOnFirst401 ==
  [][/\ \A c \in ClientCallers :
          StartsRefresh(c) =>
            /\ cfg'[c].err = 401
            /\ ~cfg[c].retry /\ cfg'[c].retry
            /\ Truthy(ls.refresh_token)
     /\ \A r \in Reqs :
          FailsUnrefreshed(r) =>
            /\ rgot'.caller = r
            /\ \/ rgot'.resp.status # 401
               \/ cfg[r].retry
               \/ ~Truthy(ls.refresh_token)
            /\ ls' = ls
            /\ redirectPending' = redirectPending
            /\ \A c \in ClientCallers : ~StartsRefresh(c)
            /\ nRefresh' = nRefresh]_vars

\* a replayed request got a 401 again, with a refresh token in the store:
\* the error went to the caller, nothing was cleared, no redirect
C24_Witness ==
  /\ rgot.caller \in Reqs /\ rgot.replayed /\ rgot.resp.status = 401
  /\ cfg[rgot.caller].st = "idle"
  /\ Truthy(ls.refresh_token)
  /\ ~redirectPending

\* C25: the routes /profile and /appointments render the Profile page only
\* in a state where loading is false and isAuthenticated is true; while
\* loading is true they render the spinner, neither the page nor a
\* redirect; with loading false and isAuthenticated false they render the
\* redirect to /login
C25_ProtectedRouteGuards ==
  /\ ProtectedElement = "children" => ~loading /\ isAuthenticated
  /\ loading => ProtectedElement = "spinner"
  /\ ~loading /\ ~isAuthenticated => ProtectedElement = "Navigate /login"
  /\ ~loading /\ isAuthenticated => ProtectedElement = "children"

\* a startup over a full store has finished Authenticated and the Profile
\* page is rendered
C25_Witness ==
  /\ ckpc = "done" /\ ckStart.hasAccess /\ ~loading /\ isAuthenticated
  /\ ProtectedElement = "children"

\* triggerEmergency ends for the press p: its alert settles, or it was
\* skipped and triggerEmergency ran to its end
AlertEnds(p) ==
  /\ presses[p].alert \in {"none", "sent"}
  /\ presses'[p].alert \in {"skipped", "succeeded", "failed"}

AlertSent(p) == presses[p].alert = "none" /\ presses'[p].alert = "sent"

\* C26: the step in which triggerEmergency ends for a press places the
\* ambulance call, whether the alert succeeded, failed or was skipped; an
\* alert is sent only in a state where isAuthenticated is true; and when
\* timers fire and calls are answered, every SOS press is eventually
\* cancelled by the user or followed by its ambulance call
C26_EveryPressLeadsToCall ==
  /\ [][\A p \in Presses :
          /\ AlertEnds(p) => presses'[p].called
          /\ AlertSent(p) => isAuthenticated]_vars
  /\ \A p \in Presses :
       (sosActive /\ sosPress = p)
         ~> (presses[p].cancelled \/ presses[p].called)

\* C27: once the user has cancelled an SOS press, no alert is sent (or sent
\* again) and no ambulance call is placed for that press; and a press
\* gets its alert and its call only after its countdown has run down to 0
C27_CancelledPressStaysSilent ==
  [][\A p \in Presses :
       /\ presses[p].cancelled =>
            /\ presses'[p].called = presses[p].called
            /\ ~AlertSent(p)
            /\ ~(cfg[SosCall(p)].st = "refreshing"
                   /\ cfg'[SosCall(p)].st = "sent")
       /\ (AlertSent(p) \/ (~presses[p].called /\ presses'[p].called)) =>
            sosPress = p \/ presses[p].alert = "sent"]_vars

\* handleResend is called
ResendRequested == ~resendLoading /\ resendLoading'

\* handleResend gets the result of its sendOTP on the mounted page
ResendSettles == otpMounted /\ resendLoading /\ otpMounted' /\ ~resendLoading'

\* C28: the resend countdown starts at 60 when the VerifyOTP page mounts,
\* with resend disabled; it changes only by going down by one or by being
\* set to 60; resend is enabled exactly while the countdown is 0; a resend
\* is requested only with the countdown at 0 and after 60 seconds counted
\* since the mount or the last successful resend; a successful resend sets
\* the countdown to 60 and disables resend, a failed one leaves the
\* countdown at 0 and resend enabled
C28_ResendAfterFullCountdown ==
  [][/\ (~otpMounted /\ otpMounted') =>
          otpCountdown' = ResendDelay /\ ~canResend' /\ elapsed' = 0
     /\ otpCountdown' # otpCountdown =>
          otpCountdown' = otpCountdown - 1 \/ otpCountdown' = ResendDelay
     /\ otpMounted' => (canResend' <=> otpCountdown' = 0)
     /\ ResendRequested =>
          canResend /\ otpCountdown = 0 /\ elapsed = ResendDelay
     /\ (ResendSettles /\ sres'.success) =>
          otpCountdown' = ResendDelay /\ ~canResend' /\ elapsed' = 0
     /\ (ResendSettles /\ ~sres'.success) =>
          otpCountdown' = 0 /\ canResend']_vars

\* a resend is in flight, requested with resend enabled after the countdown
\* has run from 60 to 0
C28_Witness ==
  /\ otpMounted /\ resendLoading /\ sres.pending
  /\ canResend /\ otpCountdown = 0 /\ elapsed = ResendDelay

====
